---- MODULE Spec2Model ----
(***************************************************************************)
(* One-way repository synchronisation: the three sync scripts of the       *)
(* repository, run one after the other against the same target repository, *)
(* source repository and hosting platform.                                 *)
(*                                                                         *)
(*   "SR"   src/sync_repositories.py                 (temporary clone)      *)
(*   "GH"   src/.github/scripts/sync_repositories.py (temporary clone)      *)
(*   "AUX"  src/sync_repos.py                        (clone in /tmp kept)   *)
(*                                                                         *)
(* A branch is the sequence of the commits reachable from its head, oldest *)
(* first; <<>> is a branch that does not exist.  A commit is a number; its *)
(* SHA is Sha(c).                                                          *)
(***************************************************************************)
EXTENDS Integers, Sequences, FiniteSets, TLC

VARIABLES
    variant,        \* which script is being run
    originTarget,   \* origin: the target branch
    originSync,     \* origin: the sync branch (<<>>: absent)
    sourceBranch,   \* source repository: the source branch
    conflicting,    \* commits whose changes conflict when truly merged
    conflictCommits,\* commits that record a conflicted merge state
    nextId,         \* next fresh commit number
    prs,            \* the platform's open pull requests, in creation order
    wc,             \* the working copy on disk
    pc,             \* position of the run in its script
    runs,           \* number of runs started
    outcome,        \* how the last finished run ended
    mergeSuccess,   \* value returned by merge_branches
    syncRet,        \* value returned by setup_repo_sync
    commitMessages, \* the commit summary built by the run
    isDraft,        \* draft argument of create_pull_request
    bodyArg,        \* commit list argument of create_pull_request
    lookup,         \* result of the open pull request lookup
    curPr,          \* number of the pull request create_pull_request holds
    path,           \* AUX: which branch of main() the run took
    conflicted,     \* the merge of the source branch conflicted in this run
    freshStart,     \* origin had no sync branch when the run started
    missing,        \* required inputs the environment of the run does not set
    locs,           \* on-disk location of each run's working copy, in run order
    race,           \* two overlapping calls of create_pull_request
    input,          \* the commits given to a summary builder called on its own
    originHeads,    \* origin: the names of the other heads, as path components
    prev,           \* what origin and the platform held when the script was run again
    trace           \* operations performed by the run, in order

worldVars == <<originTarget, originSync, sourceBranch, conflicting, conflictCommits, nextId, prs>>
runVars == <<mergeSuccess, syncRet, commitMessages, isDraft, bodyArg, lookup, curPr, path, conflicted, freshStart>>
constVars == <<variant, race, input, originHeads, prev>>
cfgVars == <<missing, locs>>
vars == <<constVars, cfgVars, worldVars, wc, pc, runs, outcome, runVars, trace>>

----------------------------------------------------------------------------
(* Bounds *)

MaxRuns == 2

MaxEnvCommits == 2

\* commits given to a summary builder called on its own
MaxSummaryCommits == 2

\* lines of a commit message
MaxMessageLines == 2

----------------------------------------------------------------------------
(* Program constants *)

ShaLen == 40

ShortShaLen == 7

Variants == {"SR", "GH", "AUX"}

TempVariants == {"SR", "GH"}

TargetBranch == "main"

\* the inputs a run may find missing: TARGET_REPO_URL, SOURCE_REPO_URL,
\* GITHUB_TOKEN (at most one at a time)
Configs == {{}, {"target"}, {"source"}, {"token"}}

\* where a run keeps its working copy: a new temporary directory (named by
\* the run) or the fixed path /tmp/target_repo
TempDir(n) == n

FixedPath == 0

SourceBranch == "main"

\* new_branch = 'sync-branch' / SYNC_REPOS_BRANCH_NAME / aux-sync-<source_branch>
SyncBranchName(v) ==
    CASE v = "SR" -> "sync-branch"
      [] v = "GH" -> "sync-repositories"
      [] v = "AUX" -> "aux-sync-main"

\* name of the remote that points at the source repository
SourceRemote(v) == IF v = "AUX" THEN "source_repo" ELSE "source"

----------------------------------------------------------------------------
(* Commits, branches and the version-control primitives *)

Sha(c) == [i \in 1..ShaLen |-> IF i = 1 THEN c % 16 ELSE (c + i) % 16]

Reverse(s) == [i \in 1..Len(s) |-> s[Len(s) + 1 - i]]

SetOf(s) == {s[i] : i \in 1..Len(s)}

\* a..b: the commits reachable from b and not from a, oldest first
CommitsBetween(a, b) == SelectSeq(b, LAMBDA c : c \notin SetOf(a))

\* git rev-list a..b and Repo.iter_commits('a..b'): newest first
rev_list(a, b) == Reverse(CommitsBetween(a, b))

\* what `git merge other` does on a branch whose history is cur
MergeKind(cur, other) ==
    IF SetOf(other) \subseteq SetOf(cur) THEN "uptodate"
    ELSE IF SetOf(cur) \subseteq SetOf(other) THEN "ff"
    ELSE IF \E c \in SetOf(other) \ SetOf(cur) : c \in conflicting THEN "conflict"
    ELSE "merge"

\* history after a merge commit m that joins other into cur
Joined(cur, other, m) == cur \o CommitsBetween(cur, other) \o <<m>>

\* git push origin <branch>: rejected unless the remote branch is an ancestor
FastForwardPush(local) == SetOf(originSync) \subseteq SetOf(local)

\* the URLs the scripts are given
TargetUrl == "target-repo.git"

SourceUrl == "source-repo.git"

\* the names of the remotes of a working copy: [remote.name for remote in repo.remotes]
RemoteNames(remotes) == {r.name : r \in remotes}

\* add_remote with the check left out: the remote of that name is set to url
AddRemoteSetUrl(remotes, name, url) ==
    {r \in remotes : r.name # name} \cup {[name |-> name, url |-> url]}

\* add_remote: create_remote unless a remote of that name exists
AddRemote(remotes, name, url) ==
    IF name \notin RemoteNames(remotes)
    THEN remotes \cup {[name |-> name, url |-> url]}
    ELSE remotes

\* repo.delete_remote(name)
DeleteRemote(remotes, name) == {r \in remotes : r.name # name}

NoWc ==
    [exists |-> FALSE, remotes |-> {}, localTarget |-> <<>>, localSync |-> <<>>,
     trackTarget |-> <<>>, trackSync |-> <<>>, trackSource |-> <<>>,
     head |-> "none", midMerge |-> FALSE, untracked |-> FALSE]

\* Repo.clone_from followed by remotes.origin.fetch()
FreshClone ==
    [exists |-> TRUE, remotes |-> {[name |-> "origin", url |-> TargetUrl]}, localTarget |-> originTarget,
     localSync |-> <<>>, trackTarget |-> originTarget, trackSync |-> originSync,
     trackSource |-> <<>>, head |-> "target", midMerge |-> FALSE, untracked |-> FALSE]

----------------------------------------------------------------------------
(* The change summary builders *)

Line(c, link) == [short |-> SubSeq(Sha(c), 1, ShortShaLen), commit |-> c, link |-> link]

\* sync_repositories.py: commits of target..new_branch, reversed to oldest first
get_commits_between_branches(target, new) ==
    LET commits == Reverse(rev_list(target, new))
    IN  [i \in 1..Len(commits) |-> Line(commits[i], TRUE)]

\* .github/scripts/sync_repositories.py: the commits the platform lists for the
\* pull request (head minus base, oldest first)
get_commits_from_pull_request(base, headBranch) ==
    LET commits == CommitsBetween(base, headBranch)
    IN  [i \in 1..Len(commits) |-> Line(commits[i], TRUE)]

\* sync_repos.py: rev-list target..source, in the order rev-list prints it
get_commit_messages(source, target) ==
    LET commits == rev_list(target, source)
    IN  [i \in 1..Len(commits) |-> Line(commits[i], FALSE)]

get_commits_to_merge(source, target) == rev_list(target, source)

\* sync_repos.py: rev-list -n 1 <aux branch>: the head commit of the branch
get_merge_commit_message(aux) == Line(aux[Len(aux)], FALSE)

\* The text of the summaries.  A commit message is the sequence of its
\* lines, "" a blank line; a summary is the sequence of the lines of the
\* string built, item telling the lines that start with "- [sha](url): ".

\* str.strip() on a message: leading and trailing blank lines go
RECURSIVE lstrip(_)
lstrip(m) == IF m # <<>> /\ Head(m) = "" THEN lstrip(Tail(m)) ELSE m

strip(m) == Reverse(lstrip(Reverse(lstrip(m))))

\* f"- [{sha}]({commit_url}): {message}", message = commit.message.strip():
\* the lines of the message after the first follow as lines of their own
format_commit(c) ==
    LET message == strip(c.message)
    IN  <<[item |-> TRUE, commit |-> c.commit,
           text |-> IF message = <<>> THEN "" ELSE message[1]]>>
        \o [i \in 1..(Len(message) - 1) |->
               [item |-> FALSE, commit |-> c.commit, text |-> message[i + 1]]]

\* "\n".join(commit_messages)
RECURSIVE join_lines(_)
join_lines(commits) ==
    IF commits = <<>> THEN <<>>
    ELSE format_commit(Head(commits)) \o join_lines(Tail(commits))

----------------------------------------------------------------------------
(* Python truth values *)

TruthyBool(b) == b

\* a tuple is true iff it is not empty
TruthyTuple(t) == Len(t) > 0

----------------------------------------------------------------------------
(* The hosting platform *)

OpenPulls(headName, baseName) ==
    SelectSeq(prs, LAMBDA p : p.head = headName /\ p.base = baseName)

\* the platform refuses a pull request whose head branch is missing or adds
\* no commit to the base
Creatable == originSync # <<>> /\ CommitsBetween(originTarget, originSync) # <<>>

NewPull(v, draft, body) ==
    [number |-> Len(prs) + 1, head |-> SyncBranchName(v), base |-> TargetBranch,
     draft |-> draft, body |-> body, title |-> v]

OtherPull ==
    [number |-> 1, head |-> "feature", base |-> TargetBranch,
     draft |-> FALSE, body |-> <<>>, title |-> "other"]

NoPrev == [taken |-> FALSE, sync |-> <<>>, prs |-> <<>>]

----------------------------------------------------------------------------
Init ==
    /\ variant \in Variants
    /\ originTarget = <<1>>
    /\ originSync = <<>>
    /\ sourceBranch \in {<<1>>, <<2>>}
    /\ conflicting \in SUBSET (SetOf(sourceBranch) \ {1})
    /\ conflictCommits = {}
    /\ nextId = 3
    /\ prs = <<OtherPull>>
    /\ wc = NoWc
    /\ pc = "idle"
    /\ runs = 0
    /\ outcome = "none"
    /\ mergeSuccess = FALSE
    /\ syncRet = <<>>
    /\ commitMessages = <<>>
    /\ isDraft = FALSE
    /\ bodyArg = <<>>
    /\ lookup = "notrun"
    /\ curPr = 0
    /\ path = "none"
    /\ conflicted = FALSE
    /\ freshStart = FALSE
    /\ missing = {}
    /\ locs = <<>>
    /\ race = <<>>
    /\ input = <<>>
    /\ originHeads = {<<"feature">>}
    /\ prev = NoPrev
    /\ trace = <<>>

\* between runs: before the first run, or after a run has ended
Idle == {"idle", "done"}

----------------------------------------------------------------------------
(* The environment: commits arrive on the source and target branches        *)
(* between runs.                                                            *)

SourceCommit ==
    /\ pc \in Idle
    /\ runs < MaxRuns
    /\ Len(sourceBranch) + Len(originTarget) < 2 + MaxEnvCommits
    /\ \E bad \in BOOLEAN :
         conflicting' = IF bad THEN conflicting \cup {nextId} ELSE conflicting
    /\ sourceBranch' = Append(sourceBranch, nextId)
    /\ nextId' = nextId + 1
    /\ pc' = "idle"
    /\ UNCHANGED <<constVars, cfgVars, originTarget, originSync, conflictCommits, prs, wc, runs, outcome, runVars, trace>>

TargetCommit ==
    /\ pc \in Idle
    /\ runs < MaxRuns
    /\ Len(sourceBranch) + Len(originTarget) < 2 + MaxEnvCommits
    /\ \E bad \in BOOLEAN :
         conflicting' = IF bad THEN conflicting \cup {nextId} ELSE conflicting
    /\ originTarget' = Append(originTarget, nextId)
    /\ nextId' = nextId + 1
    /\ pc' = "idle"
    /\ UNCHANGED <<constVars, cfgVars, originSync, sourceBranch, conflictCommits, prs, wc, runs, outcome, runVars, trace>>

\* between two runs a file appears in the working copy that stays at
\* /tmp/target_repo (no merge is started by it)
UntrackedFile ==
    /\ pc \in Idle
    /\ variant = "AUX"
    /\ runs < MaxRuns
    /\ wc.exists
    /\ ~wc.untracked
    /\ wc' = [wc EXCEPT !.untracked = TRUE]
    /\ pc' = "idle"
    /\ UNCHANGED <<constVars, cfgVars, worldVars, runs, outcome, runVars, trace>>

----------------------------------------------------------------------------
(* sync_repositories.py and .github/scripts/sync_repositories.py           *)

\* an exception leaves setup_repo_sync: the temporary directory is removed
\* and the exception ends the process
RaiseTemp(op) ==
    /\ wc' = NoWc
    /\ pc' = "done"
    /\ outcome' = "error"
    /\ trace' = Append(trace, op)

\* main(): check_env_vars logs what is missing and returns; the repository name
\* is then cut out of the target URL, which raises when there is none
StartTemp ==
    /\ pc \in Idle
    /\ variant \in TempVariants
    /\ runs < MaxRuns
    /\ runs' = runs + 1
    /\ \E m \in Configs :
         /\ missing' = m
         /\ IF "target" \in m
            THEN /\ pc' = "done"
                 /\ outcome' = "error"
                 /\ trace' = <<"config_missing">>
                 /\ UNCHANGED locs
            ELSE /\ pc' = "clone"
                 /\ outcome' = "running"
                 /\ trace' = <<>>
                 /\ locs' = Append(locs, TempDir(runs + 1))
    /\ mergeSuccess' = FALSE
    /\ syncRet' = <<>>
    /\ commitMessages' = <<>>
    /\ isDraft' = FALSE
    /\ bodyArg' = <<>>
    /\ lookup' = "notrun"
    /\ curPr' = 0
    /\ path' = "none"
    /\ conflicted' = FALSE
    /\ freshStart' = (originSync = <<>>)
    /\ UNCHANGED <<constVars, worldVars, wc>>

\* tempfile.TemporaryDirectory, Repo.clone_from, remotes.origin.fetch
clone_from ==
    /\ pc = "clone"
    /\ variant \in TempVariants
    /\ \E ok \in BOOLEAN :
         IF ok
         THEN /\ wc' = FreshClone
              /\ pc' = "add_remote"
              /\ trace' = Append(trace, "clone")
              /\ UNCHANGED outcome
         ELSE RaiseTemp("clone_failed")
    /\ UNCHANGED <<constVars, cfgVars, worldVars, runs, runVars>>

\* if 'source' not in remotes: create_remote
create_remote ==
    /\ pc = "add_remote"
    /\ variant \in TempVariants
    /\ IF variant = "GH" /\ "source" \in missing
       THEN RaiseTemp("add_remote_failed")
       ELSE /\ wc' = [wc EXCEPT !.remotes = AddRemote(@, SourceRemote(variant), SourceUrl)]
            /\ pc' = "checkout"
            /\ trace' = Append(trace, "add_remote")
            /\ UNCHANGED outcome
    /\ UNCHANGED <<constVars, cfgVars, worldVars, runs, runVars>>

\* the heads of origin: the sync branch, when it exists, and the other heads
RemoteHeads ==
    originHeads \cup (IF originSync # <<>> THEN {<<SyncBranchName(variant)>>} ELSE {})

\* a pattern of git ls-remote is matched against the tail of a ref: the whole
\* name, or what follows one of its slashes
TailMatch(name, pattern) ==
    /\ Len(pattern) <= Len(name)
    /\ SubSeq(name, Len(name) - Len(pattern) + 1, Len(name)) = pattern

\* git ls-remote --heads origin <pattern>
ls_remote(pattern) == {h \in RemoteHeads : TailMatch(h, pattern)}

\* a query that finds no branch, whatever origin has
branch_never_exists(lsOk) == FALSE

\* bool(git ls-remote --heads origin <branch>); False when the command fails
branch_exists_in_remote(lsOk) == lsOk /\ ls_remote(<<SyncBranchName(variant)>>) # {}

\* the sync branch is made from the target branch, which stays checked out
create_branch_only(w) ==
    IF w.localSync # <<>>
    THEN [w EXCEPT !.head = "target"]
    ELSE [w EXCEPT !.head = "target", !.localSync = w.localTarget]

\* checkout target_branch, then the existing local branch or checkout -b
create_and_checkout_branch(w) ==
    IF w.localSync # <<>>
    THEN [w EXCEPT !.head = "sync"]
    ELSE [w EXCEPT !.head = "sync", !.localSync = w.localTarget]

\* the sync branch is checked out from the remote, or created from the target
checkout_sync ==
    /\ pc = "checkout"
    /\ variant \in TempVariants
    /\ \E lsOk \in BOOLEAN :
         IF branch_exists_in_remote(lsOk) /\ wc.trackSync = <<>>
         THEN RaiseTemp("checkout_failed")
         ELSE /\ wc' = IF branch_exists_in_remote(lsOk)
                       THEN [wc EXCEPT !.head = "sync", !.localSync = wc.trackSync]
                       ELSE create_and_checkout_branch(wc)
              /\ pc' = "fetch_source"
              /\ trace' = IF lsOk
                          THEN Append(trace, "checkout")
                          ELSE Append(Append(trace, "ls_remote_failed"), "checkout")
              /\ UNCHANGED outcome
    /\ UNCHANGED <<constVars, cfgVars, worldVars, runs, runVars>>

\* fetch_branch(repo, 'source', source_branch)
fetch_branch ==
    /\ pc = "fetch_source"
    /\ variant \in TempVariants
    /\ \E ok \in BOOLEAN :
         IF ok /\ sourceBranch # <<>> /\ "source" \notin missing
         THEN /\ wc' = [wc EXCEPT !.trackSource = sourceBranch]
              /\ pc' = IF variant = "SR" THEN "summary" ELSE "merge"
              /\ trace' = Append(trace, "fetch")
              /\ UNCHANGED outcome
         ELSE RaiseTemp("fetch_failed")
    /\ UNCHANGED <<constVars, cfgVars, worldVars, runs, runVars>>

\* SR only: the summary is taken before the merge
summary_before_merge ==
    /\ pc = "summary"
    /\ variant = "SR"
    /\ commitMessages' = get_commits_between_branches(wc.localTarget, wc.localSync)
    /\ pc' = "merge"
    /\ trace' = Append(trace, "summary")
    /\ UNCHANGED <<constVars, cfgVars, freshStart, worldVars, wc, runs, outcome, mergeSuccess, syncRet, isDraft, bodyArg, lookup, curPr, path, conflicted>>

\* merge_branches: git merge --allow-unrelated-histories; on CONFLICT the
\* conflicted state is staged and committed and False is returned; any other
\* failure is raised
merge_branches ==
    /\ pc = "merge"
    /\ variant \in TempVariants
    /\ LET kind == MergeKind(wc.localSync, wc.trackSource)
       IN \E gitError \in BOOLEAN :
            IF gitError
            THEN /\ RaiseTemp("merge_failed")
                 /\ UNCHANGED <<worldVars, mergeSuccess, conflicted>>
            ELSE /\ pc' = "push"
                 /\ trace' = Append(trace, "merge")
                 /\ UNCHANGED <<outcome, originTarget, originSync, sourceBranch, conflicting, prs>>
                 /\ CASE kind = "uptodate" ->
                          /\ wc' = wc
                          /\ mergeSuccess' = TRUE
                          /\ UNCHANGED <<conflicted, conflictCommits, nextId>>
                      [] kind = "ff" ->
                          /\ wc' = [wc EXCEPT !.localSync = wc.trackSource]
                          /\ mergeSuccess' = TRUE
                          /\ UNCHANGED <<conflicted, conflictCommits, nextId>>
                      [] kind = "merge" ->
                          /\ wc' = [wc EXCEPT !.localSync = Joined(wc.localSync, wc.trackSource, nextId)]
                          /\ nextId' = nextId + 1
                          /\ mergeSuccess' = TRUE
                          /\ UNCHANGED <<conflicted, conflictCommits>>
                      [] kind = "conflict" ->
                          /\ wc' = [wc EXCEPT !.localSync = Joined(wc.localSync, wc.trackSource, nextId)]
                          /\ nextId' = nextId + 1
                          /\ conflictCommits' = conflictCommits \cup {nextId}
                          /\ mergeSuccess' = FALSE
                          /\ conflicted' = TRUE
    /\ UNCHANGED <<constVars, cfgVars, freshStart, runs, syncRet, commitMessages, isDraft, bodyArg, lookup, curPr, path>>

\* push_branch, then setup_repo_sync returns its tuple and the temporary
\* directory is removed
push_branch ==
    /\ pc = "push"
    /\ variant \in TempVariants
    /\ \E ok \in BOOLEAN :
         IF ok /\ FastForwardPush(wc.localSync)
         THEN /\ originSync' = wc.localSync
              /\ syncRet' = <<mergeSuccess, IF variant = "SR" THEN commitMessages ELSE <<>> >>
              /\ wc' = NoWc
              /\ pc' = "main"
              /\ trace' = Append(trace, "push")
              /\ UNCHANGED outcome
         ELSE /\ RaiseTemp("push_failed")
              /\ UNCHANGED <<originSync, syncRet>>
    /\ UNCHANGED <<constVars, cfgVars, freshStart, originTarget, sourceBranch, conflicting, conflictCommits, nextId, prs, runs, mergeSuccess, commitMessages, isDraft, bodyArg, lookup, curPr, path, conflicted>>

\* SR main(): merge_success, commit_messages = setup_repo_sync(...)
main_SR ==
    /\ pc = "main"
    /\ variant = "SR"
    /\ LET merge_success == syncRet[1]
           commit_messages == syncRet[2]
       IN IF TruthyBool(merge_success)
          THEN isDraft' = FALSE /\ bodyArg' = commit_messages
          ELSE isDraft' = TRUE /\ bodyArg' = <<>>
    /\ pc' = "pr_lookup"
    /\ UNCHANGED <<constVars, cfgVars, freshStart, worldVars, wc, runs, outcome, mergeSuccess, syncRet, commitMessages, lookup, curPr, path, conflicted, trace>>

\* GH main(): merge_success = setup_repo_sync(...), the whole tuple
main_GH ==
    /\ pc = "main"
    /\ variant = "GH"
    /\ LET merge_success == syncRet
       IN IF TruthyTuple(merge_success)
          THEN isDraft' = FALSE
          ELSE isDraft' = TRUE
    /\ bodyArg' = <<>>
    /\ pc' = "pr_lookup"
    /\ UNCHANGED <<constVars, cfgVars, freshStart, worldVars, wc, runs, outcome, mergeSuccess, syncRet, commitMessages, lookup, curPr, path, conflicted, trace>>

\* create_pull_request: repo.get_pulls(state='open', head=..., base=...)
get_pulls ==
    /\ pc = "pr_lookup"
    /\ variant \in TempVariants
    /\ \E ok \in BOOLEAN :
         IF ok
         THEN LET pulls == OpenPulls(SyncBranchName(variant), TargetBranch)
              IN IF Len(pulls) > 0
                 THEN /\ lookup' = "found"
                      /\ curPr' = IF variant = "GH" THEN pulls[1].number ELSE 0
                      /\ pc' = IF variant = "GH" THEN "pr_edit" ELSE "done"
                      /\ outcome' = IF variant = "GH" THEN outcome ELSE "ok"
                      /\ trace' = Append(trace, "lookup")
                 ELSE /\ lookup' = "none"
                      /\ pc' = "pr_create"
                      /\ trace' = Append(trace, "lookup")
                      /\ UNCHANGED <<curPr, outcome>>
         ELSE /\ lookup' = "failed"
              /\ pc' = "done"
              /\ outcome' = "error"
              /\ trace' = Append(trace, "lookup_failed")
              /\ UNCHANGED curPr
    /\ UNCHANGED <<constVars, cfgVars, freshStart, worldVars, wc, runs, mergeSuccess, syncRet, commitMessages, isDraft, bodyArg, path, conflicted>>

\* create_pull_request: repo.create_pull(...)
create_pull ==
    /\ pc = "pr_create"
    /\ variant \in TempVariants
    /\ \E ok \in BOOLEAN :
         IF ok /\ Creatable /\ "token" \notin missing
         THEN /\ prs' = Append(prs, NewPull(variant, isDraft, bodyArg))
              /\ curPr' = Len(prs) + 1
              /\ pc' = IF variant = "GH" THEN "pr_edit" ELSE "done"
              /\ outcome' = IF variant = "GH" THEN outcome ELSE "ok"
              /\ trace' = Append(trace, "create")
         ELSE /\ pc' = "done"
              /\ outcome' = "error"
              /\ trace' = Append(trace, "create_failed")
              /\ UNCHANGED <<prs, curPr>>
    /\ UNCHANGED <<constVars, cfgVars, freshStart, originTarget, originSync, sourceBranch, conflicting, conflictCommits, nextId, wc, runs, mergeSuccess, syncRet, commitMessages, isDraft, bodyArg, lookup, path, conflicted>>

\* an edit that also sets the draft flag to the conflict status of the run
EditBodyAndDraft(number, body) ==
    [i \in 1..Len(prs) |->
        IF prs[i].number = number
        THEN [prs[i] EXCEPT !.body = body, !.draft = conflicted]
        ELSE prs[i]]

\* pr.edit(body=...): the body of the pull request is replaced
EditBody(number, body) ==
    [i \in 1..Len(prs) |->
        IF prs[i].number = number
        THEN [prs[i] EXCEPT !.body = body]
        ELSE prs[i]]

\* GH create_pull_request: get_commits_from_pull_request(pr); pr.edit(body=...)
edit_pull ==
    /\ pc = "pr_edit"
    /\ variant = "GH"
    /\ \E ok \in BOOLEAN :
         IF ok /\ "token" \notin missing
         THEN /\ commitMessages' = get_commits_from_pull_request(originTarget, originSync)
              /\ prs' = EditBody(curPr, get_commits_from_pull_request(originTarget, originSync))
              /\ outcome' = "ok"
              /\ trace' = Append(Append(trace, "summary"), "edit")
         ELSE /\ outcome' = "error"
              /\ trace' = Append(trace, "edit_failed")
              /\ UNCHANGED <<prs, commitMessages>>
    /\ pc' = "done"
    /\ UNCHANGED <<constVars, cfgVars, freshStart, originTarget, originSync, sourceBranch, conflicting, conflictCommits, nextId, wc, runs, mergeSuccess, syncRet, isDraft, bodyArg, lookup, curPr, path, conflicted>>

----------------------------------------------------------------------------
(* sync_repos.py                                                           *)

\* an uncaught exception ends main(); the clone in /tmp stays as it is
RaiseAux(op) ==
    /\ pc' = "done"
    /\ outcome' = "error"
    /\ trace' = Append(trace, op)

remove_remote(w) == [w EXCEPT !.remotes = DeleteRemote(@, SourceRemote("AUX"))]

\* main(): the environment is read; a missing input is printed and main()
\* returns; else the fixed path /tmp/target_repo is chosen
StartAux ==
    /\ pc \in Idle
    /\ variant = "AUX"
    /\ runs < MaxRuns
    /\ runs' = runs + 1
    /\ \E m \in Configs :
         /\ missing' = m
         /\ IF m # {}
            THEN /\ pc' = "done"
                 /\ outcome' = "config_missing"
                 /\ trace' = <<"config_missing">>
                 /\ UNCHANGED locs
            ELSE /\ pc' = "clone"
                 /\ outcome' = "running"
                 /\ trace' = <<>>
                 /\ locs' = Append(locs, FixedPath)
    /\ mergeSuccess' = FALSE
    /\ syncRet' = <<>>
    /\ commitMessages' = <<>>
    /\ isDraft' = FALSE
    /\ bodyArg' = <<>>
    /\ lookup' = "notrun"
    /\ curPr' = 0
    /\ path' = "none"
    /\ conflicted' = FALSE
    /\ freshStart' = (originSync = <<>>)
    /\ UNCHANGED <<constVars, worldVars, wc>>

\* clone_repo: clone when the path does not exist, else fetch origin
clone_repo ==
    /\ pc = "clone"
    /\ variant = "AUX"
    /\ \E ok \in BOOLEAN :
         IF ok
         THEN /\ wc' = IF ~wc.exists
                       THEN FreshClone
                       ELSE [wc EXCEPT !.trackTarget = originTarget, !.trackSync = originSync]
              /\ pc' = "add_remote"
              /\ trace' = Append(trace, "clone")
              /\ UNCHANGED outcome
         ELSE /\ RaiseAux("clone_failed")
              /\ UNCHANGED wc
    /\ UNCHANGED <<constVars, cfgVars, worldVars, runs, runVars>>

\* add_remote: nothing when a remote of that name exists
add_remote ==
    /\ pc = "add_remote"
    /\ variant = "AUX"
    /\ wc' = [wc EXCEPT !.remotes = AddRemote(@, SourceRemote("AUX"), SourceUrl)]
    /\ pc' = "fetch_origin"
    /\ trace' = Append(trace, "add_remote")
    /\ UNCHANGED <<constVars, cfgVars, worldVars, runs, outcome, runVars>>

\* fetch_branch(target_repo, 'origin', target_branch)
fetch_origin ==
    /\ pc = "fetch_origin"
    /\ variant = "AUX"
    /\ \E ok \in BOOLEAN :
         IF ok
         THEN /\ wc' = [wc EXCEPT !.trackTarget = originTarget]
              /\ pc' = "fetch_source"
              /\ trace' = Append(trace, "fetch_origin")
              /\ UNCHANGED outcome
         ELSE /\ RaiseAux("fetch_failed")
              /\ UNCHANGED wc
    /\ UNCHANGED <<constVars, cfgVars, worldVars, runs, runVars>>

\* fetch_branch(target_repo, 'source_repo', source_branch)
fetch_source ==
    /\ pc = "fetch_source"
    /\ variant = "AUX"
    /\ \E ok \in BOOLEAN :
         IF ok /\ sourceBranch # <<>>
         THEN /\ wc' = [wc EXCEPT !.trackSource = sourceBranch]
              /\ pc' = "checkout"
              /\ trace' = Append(trace, "fetch")
              /\ UNCHANGED outcome
         ELSE /\ RaiseAux("fetch_failed")
              /\ UNCHANGED wc
    /\ UNCHANGED <<constVars, cfgVars, worldVars, runs, runVars>>

\* repo.is_dirty(untracked_files=True)
is_dirty(w) == w.midMerge \/ w.untracked

\* checkout_branch: a dirty working copy gets `git merge --abort`, which
\* raises when no merge is in progress
checkout_branch ==
    /\ pc = "checkout"
    /\ variant = "AUX"
    /\ IF is_dirty(wc) /\ ~wc.midMerge
       THEN /\ RaiseAux("abort_failed")
            /\ UNCHANGED wc
       ELSE /\ wc' = [wc EXCEPT !.midMerge = FALSE, !.head = "target"]
            /\ pc' = "pull"
            /\ trace' = Append(trace, "checkout_target")
            /\ UNCHANGED outcome
    /\ UNCHANGED <<constVars, cfgVars, worldVars, runs, runVars>>

\* target_repo.git.pull('origin', target_branch)
pull_target ==
    /\ pc = "pull"
    /\ variant = "AUX"
    /\ \E ok \in BOOLEAN :
         IF ok
         THEN /\ wc' = [wc EXCEPT !.localTarget = originTarget, !.trackTarget = originTarget]
              /\ pc' = "create_aux"
              /\ trace' = Append(trace, "pull")
              /\ UNCHANGED outcome
         ELSE /\ RaiseAux("pull_failed")
              /\ UNCHANGED wc
    /\ UNCHANGED <<constVars, cfgVars, worldVars, runs, runVars>>

\* create_auxiliary_branch: checkout the existing branch, else checkout the
\* base and checkout -b
create_auxiliary_branch ==
    /\ pc = "create_aux"
    /\ variant = "AUX"
    /\ wc' = IF wc.localSync # <<>>
             THEN [wc EXCEPT !.head = "sync"]
             ELSE [wc EXCEPT !.head = "sync", !.localSync = wc.localTarget]
    /\ pc' = "merge_target"
    /\ trace' = Append(trace, "checkout")
    /\ UNCHANGED <<constVars, cfgVars, worldVars, runs, outcome, runVars>>

\* main(): checkout the auxiliary branch and merge the target branch into it;
\* a failing merge leads to the draft pull request path
merge_target ==
    /\ pc = "merge_target"
    /\ variant = "AUX"
    /\ LET kind == MergeKind(wc.localSync, wc.localTarget)
       IN \E gitError \in BOOLEAN :
            IF gitError \/ kind = "conflict"
            THEN /\ wc' = [wc EXCEPT !.midMerge = (~gitError /\ kind = "conflict")]
                 /\ commitMessages' = get_commit_messages(wc.trackSource, wc.trackTarget)
                 /\ path' = "target_conflict"
                 /\ isDraft' = TRUE
                 /\ pc' = "push"
                 /\ trace' = Append(Append(trace, "merge_target_failed"), "summary")
                 /\ UNCHANGED nextId
            ELSE /\ wc' = CASE kind = "uptodate" -> wc
                            [] kind = "ff" -> [wc EXCEPT !.localSync = wc.localTarget]
                            [] kind = "merge" -> [wc EXCEPT !.localSync = Joined(wc.localSync, wc.localTarget, nextId)]
                 /\ nextId' = IF kind = "merge" THEN nextId + 1 ELSE nextId
                 /\ pc' = "commits_to_merge"
                 /\ UNCHANGED <<commitMessages, path, isDraft, trace>>
    /\ UNCHANGED <<constVars, cfgVars, freshStart, originTarget, originSync, sourceBranch, conflicting, conflictCommits, prs, runs, outcome, mergeSuccess, syncRet, bodyArg, lookup, curPr, conflicted>>

\* main(): no commit to merge: the remote is removed and main() returns
check_commits_to_merge ==
    /\ pc = "commits_to_merge"
    /\ variant = "AUX"
    /\ IF get_commits_to_merge(wc.trackSource, wc.trackTarget) = <<>>
       THEN /\ wc' = remove_remote(wc)
            /\ pc' = "done"
            /\ outcome' = "no_changes"
            /\ trace' = Append(trace, "remove_remote")
       ELSE /\ pc' = "merge"
            /\ UNCHANGED <<wc, outcome, trace>>
    /\ UNCHANGED <<constVars, cfgVars, worldVars, runs, runVars>>

\* merge_branches: True after a merge, False when git merge raises; nothing
\* is staged or committed
merge_branches_aux ==
    /\ pc = "merge"
    /\ variant = "AUX"
    /\ LET kind == MergeKind(wc.localSync, wc.trackSource)
       IN \E gitError \in BOOLEAN :
            IF gitError \/ kind = "conflict"
            THEN /\ wc' = [wc EXCEPT !.midMerge = (~gitError /\ kind = "conflict")]
                 /\ mergeSuccess' = FALSE
                 /\ conflicted' = (~gitError /\ kind = "conflict")
                 /\ UNCHANGED nextId
            ELSE /\ wc' = CASE kind = "uptodate" -> wc
                            [] kind = "ff" -> [wc EXCEPT !.localSync = wc.trackSource]
                            [] kind = "merge" -> [wc EXCEPT !.localSync = Joined(wc.localSync, wc.trackSource, nextId)]
                 /\ nextId' = IF kind = "merge" THEN nextId + 1 ELSE nextId
                 /\ mergeSuccess' = TRUE
                 /\ UNCHANGED conflicted
    /\ pc' = "summary"
    /\ trace' = Append(trace, "merge")
    /\ UNCHANGED <<constVars, cfgVars, freshStart, originTarget, originSync, sourceBranch, conflicting, conflictCommits, prs, runs, outcome, syncRet, commitMessages, isDraft, bodyArg, lookup, curPr, path>>

\* main(): commit_messages = get_commit_messages(...), then the branch on
\* merge_success
summary_after_merge ==
    /\ pc = "summary"
    /\ variant = "AUX"
    /\ commitMessages' = get_commit_messages(wc.trackSource, wc.trackTarget)
    /\ path' = IF mergeSuccess THEN "clean" ELSE "conflict"
    /\ isDraft' = ~mergeSuccess
    /\ pc' = "push"
    /\ trace' = Append(trace, "summary")
    /\ UNCHANGED <<constVars, cfgVars, freshStart, worldVars, wc, runs, outcome, mergeSuccess, syncRet, bodyArg, lookup, curPr, conflicted>>

\* push_changes with its result ignored by main(): the pull request is
\* reconciled whether or not the push succeeded
push_changes_unchecked ==
    /\ pc = "push"
    /\ variant = "AUX"
    /\ \E ok \in BOOLEAN :
         IF ok /\ FastForwardPush(wc.localSync)
         THEN /\ originSync' = wc.localSync
              /\ commitMessages' = IF path = "clean"
                                   THEN Append(commitMessages, get_merge_commit_message(wc.localSync))
                                   ELSE commitMessages
              /\ bodyArg' = commitMessages'
              /\ pc' = "pr_lookup"
              /\ trace' = Append(trace, "push")
              /\ UNCHANGED <<wc, outcome>>
         ELSE /\ bodyArg' = commitMessages
              /\ pc' = "pr_lookup"
              /\ trace' = Append(trace, "push_failed")
              /\ UNCHANGED <<originSync, commitMessages, wc, outcome>>
    /\ UNCHANGED <<constVars, cfgVars, freshStart, originTarget, sourceBranch, conflicting, conflictCommits, nextId, prs, runs, mergeSuccess, syncRet, isDraft, lookup, curPr, path, conflicted>>

\* push_changes and what main() does with its result: on the clean path the
\* merge commit line is appended; a failed push returns, removing the remote
\* on the two draft paths only
push_changes ==
    /\ pc = "push"
    /\ variant = "AUX"
    /\ \E ok \in BOOLEAN :
         IF ok /\ FastForwardPush(wc.localSync)
         THEN /\ originSync' = wc.localSync
              /\ commitMessages' = IF path = "clean"
                                   THEN Append(commitMessages, get_merge_commit_message(wc.localSync))
                                   ELSE commitMessages
              /\ bodyArg' = commitMessages'
              /\ pc' = "pr_lookup"
              /\ trace' = Append(trace, "push")
              /\ UNCHANGED <<wc, outcome>>
         ELSE /\ wc' = IF path = "clean" THEN wc ELSE remove_remote(wc)
              /\ pc' = "done"
              /\ outcome' = "ok"
              /\ trace' = IF path = "clean"
                          THEN Append(trace, "push_failed")
                          ELSE Append(Append(trace, "push_failed"), "remove_remote")
              /\ UNCHANGED <<originSync, commitMessages, bodyArg>>
    /\ UNCHANGED <<constVars, cfgVars, freshStart, originTarget, sourceBranch, conflicting, conflictCommits, nextId, prs, runs, mergeSuccess, syncRet, isDraft, lookup, curPr, path, conflicted>>

\* pull_request_exists: True only for a 200 answer that lists a pull request;
\* a pull request that exists makes create_pull_request return None, after
\* which main() removes the remote
pull_request_exists ==
    /\ pc = "pr_lookup"
    /\ variant = "AUX"
    /\ \E ok \in BOOLEAN :
         LET pulls == OpenPulls(SyncBranchName("AUX"), TargetBranch)
         IN IF ok /\ Len(pulls) > 0
            THEN /\ lookup' = "found"
                 /\ wc' = remove_remote(wc)
                 /\ pc' = "done"
                 /\ outcome' = "ok"
                 /\ trace' = Append(Append(trace, "lookup"), "remove_remote")
            ELSE /\ lookup' = IF ok THEN "none" ELSE "failed"
                 /\ pc' = "pr_create"
                 /\ trace' = Append(trace, IF ok THEN "lookup" ELSE "lookup_failed")
                 /\ UNCHANGED <<wc, outcome>>
    /\ UNCHANGED <<constVars, cfgVars, freshStart, worldVars, runs, mergeSuccess, syncRet, commitMessages, isDraft, bodyArg, curPr, path, conflicted>>

\* create_pull_request: requests.post; 201 gives the number, anything else
\* None; main() then removes the remote
post_pull ==
    /\ pc = "pr_create"
    /\ variant = "AUX"
    /\ \E ok \in BOOLEAN :
         IF ok /\ Creatable
         THEN /\ prs' = Append(prs, NewPull("AUX", isDraft, bodyArg))
              /\ curPr' = Len(prs) + 1
              /\ trace' = Append(Append(trace, "create"), "remove_remote")
         ELSE /\ trace' = Append(Append(trace, "create_failed"), "remove_remote")
              /\ UNCHANGED <<prs, curPr>>
    /\ wc' = remove_remote(wc)
    /\ pc' = "done"
    /\ outcome' = "ok"
    /\ UNCHANGED <<constVars, cfgVars, freshStart, originTarget, originSync, sourceBranch, conflicting, conflictCommits, nextId, runs, mergeSuccess, syncRet, commitMessages, isDraft, bodyArg, lookup, path, conflicted>>

----------------------------------------------------------------------------
Next ==
    \/ SourceCommit
    \/ TargetCommit
    \/ UntrackedFile
    \/ StartTemp
    \/ clone_from
    \/ create_remote
    \/ checkout_sync
    \/ fetch_branch
    \/ summary_before_merge
    \/ merge_branches
    \/ push_branch
    \/ main_SR
    \/ main_GH
    \/ get_pulls
    \/ create_pull
    \/ edit_pull
    \/ StartAux
    \/ clone_repo
    \/ add_remote
    \/ fetch_origin
    \/ fetch_source
    \/ checkout_branch
    \/ pull_target
    \/ create_auxiliary_branch
    \/ merge_target
    \/ check_commits_to_merge
    \/ merge_branches_aux
    \/ summary_after_merge
    \/ push_changes
    \/ pull_request_exists
    \/ post_pull

Spec == Init /\ [][Next]_vars

----------------------------------------------------------------------------
(* add_remote on its own: called with any name and URL on a working copy   *)
(* with any remotes.  trace holds the arguments of the last call.          *)

RemoteNameSet == {"origin", "source", "source_repo"}

UrlSet == {TargetUrl, SourceUrl, "other.git"}

\* the remotes a working copy can have: no two of the same name
RemoteSets ==
    {rs \in SUBSET [name : RemoteNameSet, url : UrlSet] :
        \A r1, r2 \in rs : r1.name = r2.name => r1 = r2}

InitRemote ==
    /\ variant = "AUX"
    /\ originTarget = <<1>>
    /\ originSync = <<>>
    /\ sourceBranch = <<2>>
    /\ conflicting = {}
    /\ conflictCommits = {}
    /\ nextId = 3
    /\ prs = <<>>
    /\ \E rs \in RemoteSets : wc = [FreshClone EXCEPT !.remotes = rs]
    /\ pc = "add_remote"
    /\ runs = 1
    /\ outcome = "running"
    /\ mergeSuccess = FALSE
    /\ syncRet = <<>>
    /\ commitMessages = <<>>
    /\ isDraft = FALSE
    /\ bodyArg = <<>>
    /\ lookup = "notrun"
    /\ curPr = 0
    /\ path = "none"
    /\ conflicted = FALSE
    /\ freshStart = TRUE
    /\ missing = {}
    /\ locs = <<FixedPath>>
    /\ race = <<>>
    /\ input = <<>>
    /\ originHeads = {<<"feature">>}
    /\ prev = NoPrev
    /\ trace = <<>>

add_remote_call ==
    /\ pc = "add_remote"
    /\ \E name \in RemoteNameSet, url \in UrlSet :
         /\ wc' = [wc EXCEPT !.remotes = AddRemote(@, name, url)]
         /\ trace' = <<name, url>>
    /\ UNCHANGED <<constVars, cfgVars, worldVars, pc, runs, outcome, runVars>>

NextRemote == add_remote_call

SpecRemote == InitRemote /\ [][NextRemote]_vars

----------------------------------------------------------------------------
(* Two runs for the same pair of branches that have both pushed the sync   *)
(* branch and now reconcile the pull request, their requests to the        *)
(* platform interleaved.  race[p] is the position of run p: pc, the result *)
(* of its lookup, the result of its create request (req) and the number of *)
(* the pull request it holds.                                              *)

Procs == {1, 2}

InitRace ==
    /\ variant \in Variants
    /\ originTarget = <<1>>
    /\ originSync = <<1, 2>>
    /\ sourceBranch = <<1, 2>>
    /\ conflicting = {}
    /\ conflictCommits = {}
    /\ nextId = 3
    /\ prs \in {<<>>, <<OtherPull>>}
    /\ wc = NoWc
    /\ pc = "idle"
    /\ runs = MaxRuns
    /\ outcome = "none"
    /\ mergeSuccess = FALSE
    /\ syncRet = <<>>
    /\ commitMessages = <<>>
    /\ isDraft \in BOOLEAN
    /\ bodyArg = <<>>
    /\ lookup = "notrun"
    /\ curPr = 0
    /\ path = "none"
    /\ conflicted = FALSE
    /\ freshStart = TRUE
    /\ missing = {}
    /\ locs = <<>>
    /\ input = <<>>
    /\ originHeads = {<<"feature">>}
    /\ prev = NoPrev
    /\ race = [p \in Procs |-> [pc |-> "pr_lookup", lookup |-> "notrun", req |-> "none", pr |-> 0, outcome |-> "running"]]
    /\ trace = <<>>

\* the lookup of run p: get_pulls(state='open', head, base) in the two
\* sync_repositories.py, pull_request_exists in sync_repos.py (where a failed
\* lookup counts as no pull request)
race_lookup(p) ==
    /\ race[p].pc = "pr_lookup"
    /\ \E ok \in BOOLEAN :
         LET pulls == OpenPulls(SyncBranchName(variant), TargetBranch)
         IN race' = [race EXCEPT ![p] =
                CASE ok /\ Len(pulls) > 0 ->
                        [@ EXCEPT !.lookup = "found",
                                  !.pr = IF variant = "GH" THEN pulls[1].number ELSE 0,
                                  !.pc = IF variant = "GH" THEN "pr_edit" ELSE "done",
                                  !.outcome = IF variant = "GH" THEN @ ELSE "ok"]
                  [] ok /\ Len(pulls) = 0 ->
                        [@ EXCEPT !.lookup = "none", !.pc = "pr_create"]
                  [] ~ok /\ variant = "AUX" ->
                        [@ EXCEPT !.lookup = "failed", !.pc = "pr_create"]
                  [] ~ok /\ variant # "AUX" ->
                        [@ EXCEPT !.lookup = "failed", !.pc = "done", !.outcome = "error"]]
    /\ UNCHANGED <<variant, input, originHeads, prev, cfgVars, worldVars, wc, pc, runs, outcome, runVars, trace>>

\* the create request of run p with a lookup in the same step: no request
\* when the pair has an open pull request
race_create_atomic(p) ==
    /\ race[p].pc = "pr_create"
    /\ IF Len(OpenPulls(SyncBranchName(variant), TargetBranch)) > 0
       THEN /\ race' = [race EXCEPT ![p] = [@ EXCEPT !.pc = "done", !.outcome = "ok"]]
            /\ UNCHANGED prs
       ELSE /\ prs' = Append(prs, NewPull(variant, isDraft, bodyArg))
            /\ race' = [race EXCEPT ![p] =
                          [@ EXCEPT !.req = "created", !.pr = Len(prs) + 1,
                                    !.pc = IF variant = "GH" THEN "pr_edit" ELSE "done",
                                    !.outcome = IF variant = "GH" THEN @ ELSE "ok"]]
    /\ UNCHANGED <<variant, input, originHeads, prev, cfgVars, originTarget, originSync, sourceBranch, conflicting, conflictCommits, nextId, wc, pc, runs, outcome, runVars, trace>>

\* the create request of run p: repo.create_pull(...) / requests.post(...),
\* sent whatever the platform holds by now
race_create(p) ==
    /\ race[p].pc = "pr_create"
    /\ \E ok \in BOOLEAN :
         IF ok /\ Creatable
         THEN /\ prs' = Append(prs, NewPull(variant, isDraft, bodyArg))
              /\ race' = [race EXCEPT ![p] =
                            [@ EXCEPT !.req = "created", !.pr = Len(prs) + 1,
                                      !.pc = IF variant = "GH" THEN "pr_edit" ELSE "done",
                                      !.outcome = IF variant = "GH" THEN @ ELSE "ok"]]
         ELSE /\ race' = [race EXCEPT ![p] =
                            [@ EXCEPT !.req = "failed", !.pc = "done",
                                      !.outcome = IF variant = "AUX" THEN "ok" ELSE "error"]]
              /\ UNCHANGED prs
    /\ UNCHANGED <<variant, input, originHeads, prev, cfgVars, originTarget, originSync, sourceBranch, conflicting, conflictCommits, nextId, wc, pc, runs, outcome, runVars, trace>>

\* GH: pr.edit(body=...) of run p
race_edit(p) ==
    /\ race[p].pc = "pr_edit"
    /\ variant = "GH"
    /\ \E ok \in BOOLEAN :
         IF ok
         THEN /\ prs' = EditBody(race[p].pr, get_commits_from_pull_request(originTarget, originSync))
              /\ race' = [race EXCEPT ![p] = [@ EXCEPT !.pc = "done", !.outcome = "ok"]]
         ELSE /\ race' = [race EXCEPT ![p] = [@ EXCEPT !.pc = "done", !.outcome = "error"]]
              /\ UNCHANGED prs
    /\ UNCHANGED <<variant, input, originHeads, prev, cfgVars, originTarget, originSync, sourceBranch, conflicting, conflictCommits, nextId, wc, pc, runs, outcome, runVars, trace>>

NextRace ==
    \/ \E p \in Procs : race_lookup(p)
    \/ \E p \in Procs : race_create(p)
    \/ \E p \in Procs : race_edit(p)

SpecRace == InitRace /\ [][NextRace]_vars

----------------------------------------------------------------------------
(* The summary builders of the two sync_repositories.py on their own:      *)
(* called with any commits (oldest first), of any messages.                *)

MessageLines == {"subject", "detail", ""}

Messages ==
    UNION {[1..n -> MessageLines] : n \in 1..MaxMessageLines}

CommitInputs ==
    UNION {[1..n -> Messages] : n \in 0..MaxSummaryCommits}

InitSummary ==
    /\ variant \in TempVariants
    /\ \E ms \in CommitInputs :
         input = [i \in 1..Len(ms) |-> [commit |-> i, message |-> ms[i]]]
    /\ originTarget = <<1>>
    /\ originSync = <<>>
    /\ sourceBranch = <<2>>
    /\ conflicting = {}
    /\ conflictCommits = {}
    /\ nextId = 3
    /\ prs = <<>>
    /\ wc = FreshClone
    /\ pc = "build_summary"
    /\ runs = 1
    /\ outcome = "running"
    /\ mergeSuccess = FALSE
    /\ syncRet = <<>>
    /\ commitMessages = <<>>
    /\ isDraft = FALSE
    /\ bodyArg = <<>>
    /\ lookup = "notrun"
    /\ curPr = 0
    /\ path = "none"
    /\ conflicted = FALSE
    /\ freshStart = TRUE
    /\ missing = {}
    /\ locs = <<TempDir(1)>>
    /\ race = <<>>
    /\ originHeads = {<<"feature">>}
    /\ prev = NoPrev
    /\ trace = <<>>

\* get_commits_between_branches (iter_commits gives the newest first, the
\* list is reversed) and get_commits_from_pull_request (pr.get_commits()
\* gives the oldest first)
build_summary ==
    /\ pc = "build_summary"
    /\ LET commits == IF variant = "SR" THEN Reverse(Reverse(input)) ELSE input
       IN  commitMessages' = join_lines(commits)
    /\ pc' = "summary_built"
    /\ trace' = <<"summary">>
    /\ UNCHANGED <<constVars, cfgVars, worldVars, wc, runs, outcome, mergeSuccess, syncRet, isDraft, bodyArg, lookup, curPr, path, conflicted, freshStart>>

NextSummary == build_summary

SpecSummary == InitSummary /\ [][NextSummary]_vars

----------------------------------------------------------------------------
(* The checkout step of the two sync_repositories.py on its own: a fresh   *)
(* clone of an origin with any heads.                                      *)

HeadNames == {<<"feature">>, <<"backup", "sync-branch">>, <<"backup", "sync-repositories">>}

InitQuery ==
    /\ variant \in TempVariants
    /\ originHeads \in SUBSET HeadNames
    /\ prev = NoPrev
    /\ originTarget \in {<<1>>, <<1, 2>>}
    /\ originSync \in {<<>>, <<1>>, <<1, 3>>}
    /\ sourceBranch = <<4>>
    /\ conflicting = {}
    /\ conflictCommits = {}
    /\ nextId = 5
    /\ prs = <<>>
    /\ wc = [FreshClone EXCEPT !.remotes = AddRemote(@, SourceRemote(variant), SourceUrl)]
    /\ pc = "checkout"
    /\ runs = 1
    /\ outcome = "running"
    /\ mergeSuccess = FALSE
    /\ syncRet = <<>>
    /\ commitMessages = <<>>
    /\ isDraft = FALSE
    /\ bodyArg = <<>>
    /\ lookup = "notrun"
    /\ curPr = 0
    /\ path = "none"
    /\ conflicted = FALSE
    /\ freshStart = (originSync = <<>>)
    /\ missing = {}
    /\ locs = <<TempDir(1)>>
    /\ race = <<>>
    /\ input = <<>>
    /\ trace = <<"clone", "add_remote">>

NextQuery == checkout_sync

SpecQuery == InitQuery /\ [][NextQuery]_vars

----------------------------------------------------------------------------
(* The script run a second time right after a run that ended without a     *)
(* failure, nothing committed to the source or the target in between.      *)

FailedOps ==
    {"clone_failed", "add_remote_failed", "checkout_failed", "fetch_failed", "pull_failed",
     "abort_failed", "merge_failed", "push_failed", "lookup_failed", "create_failed",
     "edit_failed", "config_missing", "ls_remote_failed", "merge_target_failed"}

NoFailure == \A i \in 1..Len(trace) : trace[i] \notin FailedOps

\* main() called again with the same environment; prev keeps what origin's
\* sync branch and the platform held at that time
Rerun ==
    /\ pc = "done"
    /\ runs = 1
    /\ runs < MaxRuns
    /\ outcome \in {"ok", "no_changes"}
    /\ NoFailure
    /\ missing = {}
    /\ runs' = runs + 1
    /\ prev' = [taken |-> TRUE, sync |-> originSync, prs |-> prs]
    /\ pc' = "clone"
    /\ outcome' = "running"
    /\ trace' = <<>>
    /\ locs' = Append(locs, IF variant = "AUX" THEN FixedPath ELSE TempDir(runs + 1))
    /\ mergeSuccess' = FALSE
    /\ syncRet' = <<>>
    /\ commitMessages' = <<>>
    /\ isDraft' = FALSE
    /\ bodyArg' = <<>>
    /\ lookup' = "notrun"
    /\ curPr' = 0
    /\ path' = "none"
    /\ conflicted' = FALSE
    /\ freshStart' = (originSync = <<>>)
    /\ UNCHANGED <<variant, race, input, originHeads, missing, worldVars, wc>>

NextRerun ==
    \/ Rerun
    \/ StartTemp
    \/ clone_from
    \/ create_remote
    \/ checkout_sync
    \/ fetch_branch
    \/ summary_before_merge
    \/ merge_branches
    \/ push_branch
    \/ main_SR
    \/ main_GH
    \/ get_pulls
    \/ create_pull
    \/ edit_pull
    \/ StartAux
    \/ clone_repo
    \/ add_remote
    \/ fetch_origin
    \/ fetch_source
    \/ checkout_branch
    \/ pull_target
    \/ create_auxiliary_branch
    \/ merge_target
    \/ check_commits_to_merge
    \/ merge_branches_aux
    \/ summary_after_merge
    \/ push_changes
    \/ pull_request_exists
    \/ post_pull

SpecRerun == Init /\ [][NextRerun]_vars

----------------------------------------------------------------------------
(* Properties *)

Did(op) == \E i \in 1..Len(trace) : trace[i] = op

LastOp == IF trace = <<>> THEN "none" ELSE trace[Len(trace)]

\* the run has ended (by a return or by an exception) and nothing has
\* happened since
Ended == pc = "done"

Pair == OpenPulls(SyncBranchName(variant), TargetBranch)

\* the commits of the source branch that the target branch does not have
NewCommits == CommitsBetween(originTarget, sourceBranch)

\* C1: after sequential runs at most one open pull request exists for the
\* (sync branch, target branch) pair, and a create request is only issued
\* after a lookup of that pair that found none.
C1_AtMostOneOpenPull ==
    /\ Len(Pair) <= 1
    /\ (pc = "pr_create" \/ Did("create") \/ Did("create_failed")) => lookup = "none"

\* C2: a second call of create_pull_request for the same head and base (one
\* that finds the pull request of an earlier call) leaves exactly one open
\* pull request, whose body is the body of that second call.
C2_SecondCallOverwritesBody ==
    (Ended /\ outcome = "ok" /\ lookup = "found") =>
        /\ Len(Pair) = 1
        /\ Pair[1].body = (IF variant = "GH" THEN commitMessages ELSE bodyArg)

\* C3: a run that creates a pull request creates it as a draft exactly when
\* merge_branches returned False for the merge of the source branch.
C3_DraftIffConflict ==
    Did("create") => (prs[curPr].draft <=> (Did("merge") /\ ~mergeSuccess))

\* C4: a run for which the source branch has no commit the target branch
\* lacks pushes nothing and creates or updates no pull request.
C4_NoOpDetection ==
    (pc # "idle" /\ NewCommits = <<>>) =>
        ~(Did("push") \/ Did("create") \/ Did("create_failed") \/ Did("edit"))

\* C5: once a run has ended, however it ended, its working copy no longer
\* exists on disk.
C5_WorkingCopyReleased == Ended => ~wc.exists

\* C6: when main() of sync_repos.py has ended after adding the source remote,
\* the working copy left on disk no longer has that remote.
C6_SourceRemoteRemoved ==
    (variant = "AUX" /\ Ended /\ Did("add_remote")) =>
        SourceRemote("AUX") \notin RemoteNames(wc.remotes)

\* the lines of a summary that name commits of the source branch name them
\* in the order of the source branch, oldest first, each with the first 7
\* characters of its SHA
Chronological(lines) ==
    /\ \A i, j \in 1..Len(lines) :
         (i < j /\ lines[i].commit \in SetOf(sourceBranch) /\ lines[j].commit \in SetOf(sourceBranch))
            => \E m, n \in 1..Len(sourceBranch) :
                 m < n /\ sourceBranch[m] = lines[i].commit /\ sourceBranch[n] = lines[j].commit
    /\ \A i \in 1..Len(lines) :
         /\ Len(lines[i].short) = 7
         /\ \A k \in 1..7 : lines[i].short[k] = Sha(lines[i].commit)[k]

\* C7: every commit list built for a pull request body lists the source
\* commits oldest first, each with its 7 character short SHA.
C7_ChronologicalSummary ==
    /\ Chronological(commitMessages)
    /\ \A i \in 1..Len(prs) : Chronological(prs[i].body)

\* C8: a run that starts without a sync branch on the remote, with n >= 1 new
\* source commits, and whose merge is clean ends with a pull request that is
\* not a draft and whose body has exactly n lines, one per new source commit.
C8_SummaryComplete ==
    (Ended /\ outcome = "ok" /\ freshStart /\ Did("merge") /\ mergeSuccess /\ Len(NewCommits) >= 1) =>
        /\ Len(Pair) >= 1
        /\ \A i \in 1..Len(Pair) :
             /\ ~Pair[i].draft
             /\ Len(Pair[i].body) = Len(NewCommits)
             /\ {Pair[i].body[k].commit : k \in 1..Len(Pair[i].body)} = SetOf(NewCommits)

\* C9: a conflicting merge of the source branch does not end the run: the run
\* goes on to push the sync branch and to pull request reconciliation in
\* draft mode; only a later failure (push, lookup, create) can end it in error.
C9_ConflictNotFatal ==
    conflicted =>
        /\ (LastOp = "merge" => pc \in {"push", "summary"})
        /\ (pc \in {"pr_lookup", "pr_create"} => isDraft)
        /\ (Did("create") => prs[curPr].draft)
        /\ (Ended /\ outcome = "error") =>
              LastOp \in {"push_failed", "lookup_failed", "create_failed", "edit_failed"}

\* C10: when merge_branches has detected a conflict, the conflicted state is
\* committed on the sync branch: no merge is left in progress in the working
\* copy, and the push that follows publishes that commit.
C10_ConflictCommitted ==
    conflicted =>
        /\ ~wc.midMerge
        /\ (wc.exists => wc.localSync[Len(wc.localSync)] \in conflictCommits)
        /\ (Did("push") => originSync[Len(originSync)] \in conflictCommits)

\* a request that creates or updates a pull request has been issued, or is
\* about to be
ReconcileRequest ==
    \/ pc \in {"pr_create", "pr_edit"}
    \/ Did("create") \/ Did("create_failed") \/ Did("edit") \/ Did("edit_failed")

\* C11: a pull request is created or updated only after the sync branch was
\* pushed successfully in the same run; after a failed push no create or
\* update request is issued.
C11_PushPrecedesReconciliation ==
    /\ ReconcileRequest => Did("push")
    /\ Did("push_failed") => ~ReconcileRequest

C11_Witness == Did("push") /\ Did("create") /\ Ended

\* C12: a run in which a fetch, a push, or a pull request lookup or create
\* request failed ends with an error reported to the caller.
C12_FailuresSurfaced ==
    (Ended /\ (Did("fetch_failed") \/ Did("push_failed") \/ Did("lookup_failed") \/ Did("create_failed")))
        => outcome = "error"

\* merge_branches met a failure of git merge that is not a conflict
NonConflictMergeFailure ==
    \/ Did("merge_failed")
    \/ (variant = "AUX" /\ Did("merge") /\ ~mergeSuccess /\ ~conflicted)

\* C13: a merge failure that is not a conflict aborts the run: nothing is
\* pushed and no pull request is requested, draft or not.
C13_OnlyConflictsDriveDraft ==
    NonConflictMergeFailure =>
        /\ ~Did("push")
        /\ pc \notin {"pr_lookup", "pr_create", "pr_edit"}
        /\ ~(Did("create") \/ Did("create_failed"))
        /\ (Ended => outcome = "error")

\* C14: a run that lacks a required input (target URL, source URL or token)
\* performs no repository operation and no pull request request, and ends
\* with a failure.
C14_ConfigurationErrorsAbortFirst ==
    (missing # {} /\ pc # "idle") =>
        /\ \A i \in 1..Len(trace) : trace[i] = "config_missing"
        /\ (Ended => outcome \in {"error", "config_missing"})

\* C16: after the checkout/create step for the sync branch the working copy
\* has no merge in progress, and the checkout step does not fail on a working
\* copy that is dirty without a merge in progress.
C16_CleanBeforeIntegration ==
    /\ (LastOp = "checkout" => ~wc.midMerge)
    /\ ~Did("abort_failed")

\* C17: no two sync attempts operate on the same working copy: an attempt
\* that starts while an earlier attempt's working copy is on disk has a
\* location that no other attempt was given.
C17_IsolatedWorkingCopy ==
    (pc = "clone" /\ wc.exists) =>
        \A i, j \in 1..Len(locs) : i # j => locs[i] # locs[j]

\* C18: the lookup and the create request are two steps: a run whose lookup
\* saw no open pull request for the pair sends its create request whatever
\* the other run has done in between, so both runs can send one.
C18_LookupCreateNotAtomic ==
    \A p \in Procs :
        (race[p].lookup = "none" /\ race[p].pc # "pr_create") =>
            race[p].req \in {"created", "failed"}

\* both lookups saw no pull request and both runs sent a create request
C18_Witness ==
    \A p \in Procs : race[p].lookup = "none" /\ race[p].req # "none"

\* the place of the first op in the trace of the run, 0 when it has none
Pos(op) == IF Did(op) THEN CHOOSE i \in 1..Len(trace) : trace[i] = op /\ \A j \in 1..(i - 1) : trace[j] # op ELSE 0

\* both steps were taken by the run, a before b
Before(a, b) == Pos(a) > 0 /\ Pos(a) < Pos(b)

ReconcileOps == {"lookup", "lookup_failed", "create", "create_failed", "edit", "edit_failed"}

\* C19: a run that has reached pull-request reconciliation has passed clone,
\* source-remote addition, sync-branch checkout, merge and summary
\* construction in this order, and every request of the reconciliation comes
\* after the summary.
C19_PipelineOrder ==
    (\E i \in 1..Len(trace) : trace[i] \in ReconcileOps) =>
        /\ Before("clone", "add_remote")
        /\ Before("add_remote", "checkout")
        /\ Before("checkout", "merge")
        /\ Before("merge", "summary")
        /\ \A i \in 1..Len(trace) : trace[i] \in ReconcileOps => Pos("summary") < i

\* C20: when the lookup of a run found an open pull request for the pair,
\* the run changes at most the body of a pull request of the pair: no pull
\* request is added, and draft flag, title, head and base of every pull
\* request stay as they were.
C20_FrameOnExistingPull ==
    [][ (lookup = "found" \/ lookup' = "found") =>
            /\ Len(prs') = Len(prs)
            /\ \A i \in 1..Len(prs) :
                 /\ prs'[i] = [prs[i] EXCEPT !.body = prs'[i].body]
                 /\ (prs'[i] # prs[i] =>
                        prs[i].head = SyncBranchName(variant) /\ prs[i].base = TargetBranch) ]_vars

\* a run with a conflict found the pull request that an earlier run without
\* one had opened as a regular pull request, and edited it
C20_Witness ==
    /\ lookup = "found"
    /\ Did("edit")
    /\ conflicted
    /\ Len(Pair) > 0
    /\ ~Pair[1].draft

\* C21: the body of a pull request that a run created is the commit summary
\* built for that run, draft or not; the summary is not replaced by an empty
\* list when the merge conflicted.
C21_CreatedBodyCarriesSummary ==
    Did("create") => prs[curPr].body = commitMessages

\* C22: a run never comes to send a create request while an open pull
\* request for the pair exists, also when its lookup request failed: a failed
\* lookup does not count as "no pull request".
C22_NoCreateOnUnknownLookup ==
    pc = "pr_create" => (lookup = "none" /\ Len(Pair) = 0)

\* the one line "- [sha](url): subject" of a commit, the subject being the
\* first line of its message
format_subject(c) ==
    LET message == strip(c.message)
    IN  <<[item |-> TRUE, commit |-> c.commit,
           text |-> IF message = <<>> THEN "" ELSE message[1]]>>

\* C23: the summary has exactly one line per commit of the input, the line
\* of a commit carrying the first line of its message and nothing else; no
\* commit gives the empty summary.
C23_SummaryShape ==
    pc = "summary_built" =>
        /\ Len(commitMessages) = Len(input)
        /\ \A i \in 1..Len(input) :
             i <= Len(commitMessages) => <<commitMessages[i]>> = format_subject(input[i])

\* C24: branch_exists_in_remote is True only when origin has a head of the
\* name of the sync branch: the checkout step that uses its answer does not
\* raise, and when origin has no such head the step leaves the sync branch
\* created from the target branch and checked out.
C24_RemoteBranchQuery ==
    /\ ~Did("checkout_failed")
    /\ (LastOp = "checkout" /\ variant \in TempVariants /\ originSync = <<>>) =>
            (wc.head = "sync" /\ wc.localSync = wc.localTarget)

\* C25: a run pushes nothing but the sync branch: no step of a run changes
\* the target branch (or any other head) on origin, a push puts the local
\* sync branch on origin's sync branch, and every merge of the source branch
\* is made with the sync branch checked out.
C25_OnlySyncBranchPublished ==
    [][ /\ (pc \notin Idle => (originTarget' = originTarget /\ originHeads' = originHeads))
        /\ (originSync' # originSync => (originSync' = wc.localSync /\ LastOp' = "push"))
        /\ ((Len(trace') = Len(trace) + 1 /\ LastOp' = "merge") => wc.head = "sync") ]_vars

\* a run has merged the source branch and pushed the sync branch, and the
\* target branch on origin is as it was
C25_Witness ==
    /\ Did("merge")
    /\ Did("push")
    /\ originSync # <<>>
    /\ originSync # originTarget
    /\ originTarget = <<1>>

C15_AddRemoteIdempotent ==
    [][ /\ (trace'[1] \in RemoteNames(wc.remotes) => wc'.remotes = wc.remotes)
        /\ AddRemote(wc'.remotes, trace'[1], trace'[2]) = wc'.remotes
        /\ RemoteNames(wc'.remotes) = RemoteNames(wc.remotes) \cup {trace'[1]} ]_vars

\* add_remote was called with the name of an existing remote and another URL
C15_Witness ==
    /\ Len(trace) = 2
    /\ \E r \in wc.remotes : r.name = trace[1] /\ r.url # trace[2]

====
